---------------------------- MODULE Spec2Model ----------------------------
(***************************************************************************)
(* Model of bridge_server.py: the HTTP bridge in front of the Brother      *)
(* VC-500W label printer.  One request is handled at a time                *)
(* (socketserver.TCPServer); a handler is modelled statement group by      *)
(* statement group, with every call that can raise (device calls, file     *)
(* operations, socket writes) choosing its outcome nondeterministically.   *)
(* Byte strings and text are sequences of one-character strings; the byte  *)
(* 0xFF (invalid as UTF-8) is the token "xFF".                             *)
(***************************************************************************)
EXTENDS Integers, Sequences, FiniteSets, TLC

(***************************************************************************)
(* Bounds of the model.                                                    *)
(***************************************************************************)
MaxContent == 2

(***************************************************************************)
(* Characters and the literals the code uses.                              *)
(***************************************************************************)
CR == "\r"
LF == "\n"
Q == "\""
XFF == "xFF"

S_boundary_eq == <<"b", "o", "u", "n", "d", "a", "r", "y", "=">>
S_multipart == <<"m", "u", "l", "t", "i", "p", "a", "r", "t", "/", "f", "o", "r", "m", "-", "d", "a", "t", "a">>
S_dashes == <<"-", "-">>
S_crlf == <<CR, LF>>
S_crlfcrlf == <<CR, LF, CR, LF>>
S_content_disposition == <<"c", "o", "n", "t", "e", "n", "t", "-", "d", "i", "s", "p", "o", "s", "i", "t", "i", "o", "n", ":">>
S_name_eq == <<"n", "a", "m", "e", "=", Q>>
S_filename_eq == <<"f", "i", "l", "e", "n", "a", "m", "e", "=", Q>>
S_quote == <<Q>>
S_image == <<"i", "m", "a", "g", "e">>
S_printer_ip == <<"p", "r", "i", "n", "t", "e", "r", "_", "i", "p">>
S_mode == <<"m", "o", "d", "e">>
S_cut == <<"c", "u", "t">>
S_default_ip == <<"1", "9", "2", ".", "1", "6", "8", ".", "1", "7", "8", ".", "1", "2", "0">>
S_vivid == <<"v", "i", "v", "i", "d">>
S_full == <<"f", "u", "l", "l">>

\* Python's None, and a present value v, for values that may be absent.
None == << >>
Some(v) == <<v>>

\* Python truthiness of an optional string: None and '' are false.
Truthy(o) == o # None /\ o[1] # << >>

(***************************************************************************)
(* str / bytes methods, computed as CPython computes them.                 *)
(***************************************************************************)
MatchAt(s, p, i) ==
    /\ i + Len(p) <= Len(s)
    /\ SubSeq(s, i + 1, i + Len(p)) = p

\* s.find(p, start): the lowest 0-based index >= start where p occurs, or -1.
Find(s, p, start) ==
    LET hits == {i \in start..(Len(s) - Len(p)) : MatchAt(s, p, i)}
    IN  IF hits = {} THEN -1
        ELSE CHOOSE i \in hits : \A j \in hits : i <= j

\* p in s
Contains(s, p) == Find(s, p, 0) # -1

StartsWith(s, p) == MatchAt(s, p, 0)

EndsWith(s, p) == Len(s) >= Len(p) /\ MatchAt(s, p, Len(s) - Len(p))

\* s[a:b] for a >= 0; a negative b counts from the end, as in line[start:-1].
Slice(s, a, b) ==
    LET hi0 == IF b < 0 THEN Len(s) + b ELSE b
        hi  == IF hi0 > Len(s) THEN Len(s) ELSE hi0
    IN  IF a >= hi THEN << >> ELSE SubSeq(s, a + 1, hi)

RECURSIVE Split(_, _)
\* s.split(sep)
Split(s, sep) ==
    LET i == Find(s, sep, 0)
    IN  IF i = -1 THEN <<s>>
        ELSE <<Slice(s, 0, i)>> \o Split(Slice(s, i + Len(sep), Len(s)), sep)

\* s.split(sep, 1)
SplitOnce(s, sep) ==
    LET i == Find(s, sep, 0)
    IN  IF i = -1 THEN <<s>>
        ELSE <<Slice(s, 0, i), Slice(s, i + Len(sep), Len(s))>>

Whitespace == {" ", "\t", LF, CR, "\f"}

RECURSIVE RStripChars(_, _)
\* s.rstrip(chars): every trailing character that is in chars is removed.
RStripChars(s, chars) ==
    IF s # << >> /\ s[Len(s)] \in chars
    THEN RStripChars(SubSeq(s, 1, Len(s) - 1), chars)
    ELSE s

RECURSIVE LStripChars(_, _)
LStripChars(s, chars) ==
    IF s # << >> /\ s[1] \in chars
    THEN LStripChars(SubSeq(s, 2, Len(s)), chars)
    ELSE s

\* s.strip()
Strip(s) == LStripChars(RStripChars(s, Whitespace), Whitespace)

LowerChar(c) ==
    CASE c = "A" -> "a"
      [] c = "B" -> "b"
      [] c = "C" -> "c"
      [] c = "D" -> "d"
      [] c = "E" -> "e"
      [] c = "F" -> "f"
      [] c = "G" -> "g"
      [] c = "H" -> "h"
      [] c = "I" -> "i"
      [] c = "J" -> "j"
      [] c = "K" -> "k"
      [] c = "L" -> "l"
      [] c = "M" -> "m"
      [] c = "N" -> "n"
      [] c = "O" -> "o"
      [] c = "P" -> "p"
      [] c = "Q" -> "q"
      [] c = "R" -> "r"
      [] c = "S" -> "s"
      [] c = "T" -> "t"
      [] c = "U" -> "u"
      [] c = "V" -> "v"
      [] c = "W" -> "w"
      [] c = "X" -> "x"
      [] c = "Y" -> "y"
      [] c = "Z" -> "z"
      [] OTHER -> c

\* s.lower()
Lower(s) == [i \in 1..Len(s) |-> LowerChar(s[i])]

\* b.decode('utf-8', errors='ignore'): bytes that are no valid UTF-8 are dropped.
DecodeIgnore(b) == SelectSeq(b, LAMBDA c : c # XFF)

\* d[k] = v on a dict (a function with a finite domain).
DictPut(d, k, v) == [x \in (DOMAIN d) \cup {k} |-> IF x = k THEN v ELSE d[x]]

\* d.get(k, default)
DictGet(d, k, default) == IF k \in DOMAIN d THEN d[k] ELSE default

EmptyDict == << >>

(***************************************************************************)
(* parse_multipart_form_data                                               *)
(***************************************************************************)
\* content_type.split('boundary=')[1].strip(), less one pair of double quotes
ExtractBoundary(content_type) ==
    LET boundary == Strip(Split(content_type, S_boundary_eq)[2])
    IN  IF StartsWith(boundary, S_quote) /\ EndsWith(boundary, S_quote)
        THEN Slice(boundary, 1, -1)
        ELSE boundary

\* the text after marker in line, up to the next double quote
ExtractAttribute(line, marker) ==
    LET start == Find(line, marker, 0) + Len(marker)
        end   == Find(line, S_quote, start)
    IN  Slice(line, start, end)

RECURSIVE ScanHeaderLines(_, _, _)
\* the loop over headers_text.split('\r\n'); nf = <<name, filename>>
ScanHeaderLines(lines, i, nf) ==
    IF i > Len(lines) THEN nf
    ELSE LET line == lines[i]
             isCD == StartsWith(Lower(line), S_content_disposition)
             name == IF isCD /\ Contains(line, S_name_eq)
                     THEN Some(ExtractAttribute(line, S_name_eq))
                     ELSE nf[1]
             filename == IF isCD /\ Contains(line, S_filename_eq)
                         THEN Some(ExtractAttribute(line, S_filename_eq))
                         ELSE nf[2]
         IN  ScanHeaderLines(lines, i + 1, <<name, filename>>)

\* content.rstrip(b'\r\n')
StripContent(content) == RStripChars(content, {CR, LF})

\* a part counts as a file part when: if filename:
IsFilePart(filename) == Truthy(filename)

\* the body of the loop over parts[1:-1]; acc = [form_data, files]
ParsePart(part, acc) ==
    IF Strip(part) = << >> THEN acc
    ELSE IF ~Contains(part, S_crlfcrlf) THEN acc
    ELSE LET hc == SplitOnce(part, S_crlfcrlf)
             headers_text == DecodeIgnore(hc[1])
             nf == ScanHeaderLines(Split(headers_text, S_crlf), 1, <<None, None>>)
             name == nf[1]
             filename == nf[2]
             content == StripContent(hc[2])
         IN  IF ~Truthy(name) THEN acc
             ELSE IF IsFilePart(filename)
             THEN [acc EXCEPT !.files =
                      DictPut(@, name[1], [filename |-> filename[1], content |-> content])]
             ELSE [acc EXCEPT !.form_data = DictPut(@, name[1], DecodeIgnore(content))]

RECURSIVE ParseParts(_, _, _)
ParseParts(parts, i, acc) ==
    IF i > Len(parts) - 1 THEN acc
    ELSE ParseParts(parts, i + 1, ParsePart(parts[i], acc))

\* Returns [error, form_data, files]; error is the ValueError message, "" when none.
parse_multipart_form_data(content_type, body) ==
    IF ~Contains(content_type, S_boundary_eq)
    THEN [error |-> "No boundary found in content type",
          form_data |-> EmptyDict, files |-> EmptyDict]
    ELSE LET boundary == ExtractBoundary(content_type)
             parts == Split(body, S_dashes \o boundary)
             r == ParseParts(parts, 2, [form_data |-> EmptyDict, files |-> EmptyDict])
         IN  [error |-> "", form_data |-> r.form_data, files |-> r.files]

(***************************************************************************)
(* The multipart/form-data body the web client's FormData submission       *)
(* produces for a form: a sequence of parts [name, filename, content],     *)
(* filename None for a text field.                                         *)
(***************************************************************************)
S_cd_prefix == <<"C", "o", "n", "t", "e", "n", "t", "-", "D", "i", "s", "p", "o", "s", "i", "t", "i", "o", "n", ":", " ", "f", "o", "r", "m", "-", "d", "a", "t", "a", ";", " ", "n", "a", "m", "e", "=", Q>>
S_cd_filename == <<Q, ";", " ", "f", "i", "l", "e", "n", "a", "m", "e", "=", Q>>
S_ct_jpeg == <<"C", "o", "n", "t", "e", "n", "t", "-", "T", "y", "p", "e", ":", " ", "i", "m", "a", "g", "e", "/", "j", "p", "e", "g">>
S_boundary == <<"B", "7">>

EncodePart(part, boundary) ==
    S_dashes \o boundary \o S_crlf
    \o S_cd_prefix \o part.name
    \o (IF part.filename = None THEN <<Q>>
        ELSE S_cd_filename \o part.filename[1] \o <<Q>> \o S_crlf \o S_ct_jpeg)
    \o S_crlfcrlf \o part.content \o S_crlf

RECURSIVE EncodeParts(_, _)
EncodeParts(form, boundary) ==
    IF form = << >> THEN << >>
    ELSE EncodePart(Head(form), boundary) \o EncodeParts(Tail(form), boundary)

EncodeForm(form, boundary) ==
    EncodeParts(form, boundary) \o S_dashes \o boundary \o S_dashes \o S_crlf

(***************************************************************************)
(* Python floats: IEEE-754 binary64 with round-to-nearest-even.  A         *)
(* positive float is [m, e]: a 53-bit mantissa m (a sequence of bits, most *)
(* significant first) and the exponent e of its last bit, the value being  *)
(* m * 2^e; the sign is carried by the caller.                             *)
(***************************************************************************)
MantissaBits == 53

\* the w-bit binary representation of n, most significant bit first
NatToBits(n, w) == [i \in 1..w |-> (n \div (2 ^ (w - i))) % 2]

RECURSIVE BitsToNat(_)
\* the value of at most 30 bits
BitsToNat(bits) ==
    IF bits = << >> THEN 0
    ELSE 2 * BitsToNat(SubSeq(bits, 1, Len(bits) - 1)) + bits[Len(bits)]

StripLeadingZeros(bits) ==
    LET ones == {i \in 1..Len(bits) : bits[i] = 1}
    IN  IF ones = {} THEN << >>
        ELSE SubSeq(bits, CHOOSE i \in ones : \A j \in ones : i <= j, Len(bits))

Zeros(n) == [i \in 1..n |-> 0]

FZero == [m |-> << >>, e |-> 0]

\* bits + 1 on MantissaBits bits; all ones carries into a longer mantissa
IncMantissa(bits, e) ==
    LET zeros == {i \in 1..Len(bits) : bits[i] = 0}
    IN  IF zeros = {}
        THEN [m |-> <<1>> \o Zeros(Len(bits) - 1), e |-> e + 1]
        ELSE LET z == CHOOSE i \in zeros : \A j \in zeros : i >= j
             IN  [m |-> [i \in 1..Len(bits) |->
                            IF i < z THEN bits[i] ELSE IF i = z THEN 1 ELSE 0],
                  e |-> e]

\* The float nearest to bits * 2^e (+ a nonzero part below the last bit when
\* sticky), ties to the even mantissa.
RoundNearestEven(bits0, e, sticky) ==
    LET bits == StripLeadingZeros(bits0)
        L == Len(bits)
    IN  IF L = 0 THEN FZero
        ELSE IF L <= MantissaBits
        THEN [m |-> bits \o Zeros(MantissaBits - L), e |-> e - (MantissaBits - L)]
        ELSE LET keep  == SubSeq(bits, 1, MantissaBits)
                 guard == bits[MantissaBits + 1]
                 rest  == sticky \/ \E i \in (MantissaBits + 2)..L : bits[i] = 1
                 e2    == e + (L - MantissaBits)
             IN  IF guard = 1 /\ (rest \/ keep[MantissaBits] = 1)
                 THEN IncMantissa(keep, e2)
                 ELSE [m |-> keep, e |-> e2]

RECURSIVE DivBits(_, _, _)
\* n further groups of 8 quotient bits of rem / t (rem < t), and the remainder left
DivBits(rem, t, n) ==
    IF n = 0 THEN [bits |-> << >>, rem |-> rem]
    ELSE LET x == rem * 256
             d == DivBits(x % t, t, n - 1)
         IN  [bits |-> NatToBits(x \div t, 8) \o d.bits, rem |-> d.rem]

\* r / t for integers r >= 0, t > 0 (t < 2^23): the correctly rounded quotient
FDiv(r, t) ==
    LET frac == DivBits(r % t, t, 11)
    IN  RoundNearestEven(NatToBits(r \div t, 31) \o frac.bits, -88, frac.rem # 0)

RECURSIVE MulLimbs(_, _, _, _)
\* bits * k, bits taken 8 at a time from the last group i down to the first
MulLimbs(bits, k, i, carry) ==
    IF i = 0 THEN NatToBits(carry, 31)
    ELSE LET v == BitsToNat(SubSeq(bits, 8 * i - 7, 8 * i)) * k + carry
         IN  MulLimbs(bits, k, i - 1, v \div 256) \o NatToBits(v % 256, 8)

\* f * k * 2^shift for a float f and an integer 0 <= k < 2^20, rounded
FMulSmall(f, k, shift) ==
    IF f.m = << >> \/ k = 0 THEN FZero
    ELSE RoundNearestEven(MulLimbs(Zeros(3) \o f.m, k, 7, 0), f.e + shift, FALSE)

\* int(f) for a float 0 <= f < 2^30: the fraction is dropped
FTrunc(f) ==
    IF f.m = << >> \/ MantissaBits + f.e <= 0 THEN 0
    ELSE BitsToNat(SubSeq(f.m, 1, MantissaBits + f.e))

Abs(n) == IF n < 0 THEN -n ELSE n
Sign(n) == IF n < 0 THEN -1 ELSE 1

\* the literal 25.4
F25_4 == FDiv(127, 5)

(***************************************************************************)
(* Lengths in inches are multiples of 1/32 inch: the integer q stands for  *)
(* the float q / 32, which binary64 represents exactly.                    *)
(***************************************************************************)
\* int(inches * 25.4)
InchesToMm(q) == Sign(q) * FTrunc(FMulSmall(F25_4, Abs(q), -5))

\* int((remaining_mm / total_mm) * 100) if total_mm > 0 else 0
Percentage(remaining_mm, total_mm) ==
    IF total_mm > 0
    THEN Sign(remaining_mm)
         * FTrunc(FMulSmall(FDiv(Abs(remaining_mm), total_mm), 100, 0))
    ELSE 0

(***************************************************************************)
(* The requests the server is sent, and what the printer can answer.       *)
(***************************************************************************)
S_status == <<"/", "s", "t", "a", "t", "u", "s">>
S_printer_status == <<"/", "p", "r", "i", "n", "t", "e", "r", "-", "s", "t", "a", "t", "u", "s">>
S_print == <<"/", "p", "r", "i", "n", "t">>
S_other == <<"/", "x">>
S_qmark == <<"?">>
S_amp == <<"&">>
S_eq == <<"=">>
S_ip == <<"i", "p">>
S_ip2 == <<"1", "0", ".", "0", ".", "0", ".", "5">>
S_pastel == <<"p", "a", "s", "t", "e", "l">>
S_each == <<"e", "a", "c", "h">>
S_jpegname == <<"a", ".", "j", "p", "g">>
S_x1 == <<"x", "=", "1">>

CT_plain == S_multipart \o <<";", " ">> \o S_boundary_eq \o S_boundary
CT_quoted == S_multipart \o <<";", " ">> \o S_boundary_eq \o <<Q>> \o S_boundary \o <<Q>>
CT_noboundary == S_multipart
CT_json == <<"a", "p", "p", "l", "i", "c", "a", "t", "i", "o", "n", "/", "j", "s", "o", "n">>
\* a header whose only parameter is named xboundary
CT_xboundary == S_multipart \o <<";", " ", "x">> \o S_boundary_eq \o S_boundary

ContentBytes == {"a", CR, LF, XFF}
Contents == UNION {[1..n -> ContentBytes] : n \in 0..MaxContent}

Part(name, filename, content) ==
    [name |-> name, filename |-> filename, content |-> content]

\* the form of the spec's end-to-end example, and variations of it
ExampleForm ==
    <<Part(S_image, Some(S_jpegname), <<"a", "a", "a">>), Part(S_printer_ip, None, S_ip2),
      Part(S_mode, None, S_pastel), Part(S_cut, None, S_each)>>

Forms ==
    {<<Part(n, f, c)>> : n \in {S_image, S_mode},
                         f \in {None, Some(<< >>), Some(S_jpegname)},
                         c \in Contents}
    \cup {ExampleForm, << >>,
          <<Part(S_image, Some(S_jpegname), <<"a">>), Part(S_mode, None, S_vivid),
            Part(S_mode, None, S_pastel)>>}

GetRequest(path) ==
    [method |-> "GET", path |-> path, content_type |-> << >>,
     content_length_ok |-> TRUE, form |-> << >>, body |-> << >>]

PostRequest(path, content_type, content_length_ok, form) ==
    [method |-> "POST", path |-> path, content_type |-> content_type,
     content_length_ok |-> content_length_ok, form |-> form,
     body |-> EncodeForm(form, S_boundary)]

StatusPaths ==
    {S_printer_status,
     S_printer_status \o S_qmark,
     S_printer_status \o S_qmark \o S_ip \o S_eq,
     S_printer_status \o S_qmark \o S_ip \o S_eq \o S_ip2,
     S_printer_status \o S_qmark \o S_x1 \o S_amp \o S_ip \o S_eq \o S_ip2}

Requests ==
    {GetRequest(p) : p \in StatusPaths \cup {S_status, S_status \o S_qmark \o S_x1,
                                             S_print, S_other}}
    \cup {PostRequest(S_print, CT_plain, TRUE, f) : f \in Forms}
    \cup {PostRequest(S_print, ct, TRUE, ExampleForm) :
              ct \in {CT_quoted, CT_noboundary, CT_json, CT_xboundary}}
    \cup {PostRequest(S_print, CT_plain, FALSE, ExampleForm),
          PostRequest(S_print \o S_qmark \o S_x1, CT_plain, TRUE, ExampleForm),
          PostRequest(S_status, CT_plain, TRUE, ExampleForm)}
    \cup {[GetRequest(p) EXCEPT !.method = m] :
              m \in {"OPTIONS", "PUT", "DELETE", "HEAD"}, p \in {S_print, S_other}}

NoRequest == GetRequest(<< >>)

\* Tape lengths in 1/32 inch (32 is 1.0 in); the printer may report no width or
\* length.  The remaining length -1.0 is the printer's "not applicable".
Sentinel == -32
TapeWidths == {None, Some(0), Some(32), Some(-32)}
TapeLengthsInitial == {None, Some(0), Some(1), Some(320), Some(504)}
TapeLengthsRemaining == {Sentinel, -16, 0, 160, 288, 640}

Configurations ==
    [model : {"VC-500W"}, serial : {"S1"},
     tape_width : TapeWidths, tape_length_initial : TapeLengthsInitial]

Statuses ==
    [print_state : {"IDLE", "BUSY"}, print_job_stage : {"READY"},
     print_job_error : {"NONE"}, tape_length_remaining : TapeLengthsRemaining]

NoConfiguration ==
    [model |-> "", serial |-> "", tape_width |-> None, tape_length_initial |-> None]

NoStatus ==
    [print_state |-> "", print_job_stage |-> "", print_job_error |-> "",
     tape_length_remaining |-> Sentinel]

\* messages of the exceptions the device library and the operating system raise
DeviceErrors == {"timed out", "connection reset"}
IOErrors == {"broken pipe"}
FileErrors == {"no space left on device"}

NoExc == "<none>"
Port == 9100

(***************************************************************************)
(* urlparse and parse_qs, as far as the handlers use them.                 *)
(***************************************************************************)
\* urlparse(path).path
UrlPath(path) == SplitOnce(path, S_qmark)[1]

\* urlparse(path).query
UrlQuery(path) ==
    LET pq == SplitOnce(path, S_qmark)
    IN  IF Len(pq) = 2 THEN pq[2] ELSE << >>

RECURSIVE QsValues(_, _, _)
\* parse_qs(query)[key] as a list: the pairs key=value with a non-blank value, in order
QsValues(pairs, i, key) ==
    IF i > Len(pairs) THEN << >>
    ELSE LET nv == SplitOnce(pairs[i], S_eq)
         IN  (IF Len(nv) = 2 /\ nv[1] = key /\ nv[2] # << >> THEN <<nv[2]>> ELSE << >>)
             \o QsValues(pairs, i + 1, key)

\* QueryPrinterIp with parse_qs keeping blank values: ip= gives the empty host
QueryPrinterIp_KeepBlank(path) ==
    LET pairs == Split(UrlQuery(path), S_amp)
        hits == {i \in DOMAIN pairs : StartsWith(pairs[i], S_ip \o S_eq)}
    IN  IF hits = {} THEN S_default_ip
        ELSE LET first == CHOOSE i \in hits : \A j \in hits : i <= j
             IN  SubSeq(pairs[first], Len(S_ip) + 2, Len(pairs[first]))

\* parse_qs(parsed_path.query).get('ip', ['192.168.178.120'])[0]
QueryPrinterIp(path) ==
    LET values == QsValues(Split(UrlQuery(path), S_amp), 1, S_ip)
    IN  IF values = << >> THEN S_default_ip ELSE values[1]

(***************************************************************************)
(* The tape projection of handle_printer_status_request.                   *)
(***************************************************************************)
DefaultTapeInfo ==
    [present |-> FALSE, type_mm |-> 0, total_mm |-> 0, remaining_mm |-> 0,
     percentage |-> 0]

\* truthiness of a float that may be None: None and 0.0 are false
FloatTruthy(o) == o # None /\ o[1] # 0

\* if config.tape_width and config.tape_length_initial and
\*    status.tape_length_remaining != -1.0:
TapePresent(cfg, st) ==
    /\ FloatTruthy(cfg.tape_width)
    /\ FloatTruthy(cfg.tape_length_initial)
    /\ st.tape_length_remaining # Sentinel

ProjectTape(cfg, st) ==
    IF TapePresent(cfg, st)
    THEN LET type_mm == InchesToMm(cfg.tape_width[1])
             total_mm == InchesToMm(cfg.tape_length_initial[1])
             remaining_mm == InchesToMm(st.tape_length_remaining)
         IN  [present |-> TRUE, type_mm |-> type_mm, total_mm |-> total_mm,
              remaining_mm |-> remaining_mm,
              percentage |-> Percentage(remaining_mm, total_mm)]
    ELSE DefaultTapeInfo

(***************************************************************************)
(* State.  The server handles one request at a time; everything below but  *)
(* pc belongs to the request being handled.                                *)
(***************************************************************************)
VARIABLES
    pc,           \* the statement the handler is at; "idle" between requests
    request,      \* the request being handled
    printer_ip,   \* local printer_ip
    connection,   \* the Connection: "none", "open", "closed" or "close_failed"
    target,       \* <<host, port>> the Connection was constructed with, or None
    config,       \* local config
    status,       \* local status
    tape_info,    \* local tape_info
    parsed,       \* what parse_multipart_form_data returned
    job,          \* locals mode, cut, image_data, image_filename
    temp_file,    \* the file temp_filename names: "none", "exists" or "removed"
    printed,      \* the arguments print_jpeg was called with, or None
    sent,         \* what was written to the client: status lines with headers, bodies
    exc,          \* the message of the last exception raised, or NoExc
    escaped,      \* an exception left the handler
    log           \* the device and file calls made, in order, each with its outcome

vars == <<pc, request, printer_ip, connection, target, config, status, tape_info,
          parsed, job, temp_file, printed, sent, exc, escaped, log>>

NoParse == [error |-> "", form_data |-> EmptyDict, files |-> EmptyDict]
NoJob == [mode |-> << >>, cut |-> << >>, image_data |-> << >>, image_filename |-> << >>]

HeadItem(code, cors) == [kind |-> "head", status |-> code, cors |-> cors]
BodyItem(body) == [kind |-> "body", body |-> body]
Done(name) == [call |-> name, ok |-> TRUE, err |-> ""]
Failed(name, e) == [call |-> name, ok |-> FALSE, err |-> e]

Init ==
    /\ pc = "idle"
    /\ request = NoRequest
    /\ printer_ip = << >>
    /\ connection = "none"
    /\ target = None
    /\ config = NoConfiguration
    /\ status = NoStatus
    /\ tape_info = DefaultTapeInfo
    /\ parsed = NoParse
    /\ job = NoJob
    /\ temp_file = "none"
    /\ printed = None
    /\ sent = << >>
    /\ exc = NoExc
    /\ escaped = FALSE
    /\ log = << >>

(***************************************************************************)
(* run_server and the dispatch of BaseHTTPRequestHandler.                  *)
(***************************************************************************)
\* httpd.serve_forever() accepts the next request
Receive ==
    /\ pc = "idle"
    /\ \E r \in Requests : request' = r
    /\ pc' = "dispatch"
    /\ UNCHANGED <<printer_ip, connection, target, config, status, tape_info, parsed,
                   job, temp_file, printed, sent, exc, escaped, log>>

\* the handler is done with the request; the server goes back to accepting
Return ==
    /\ pc = "returned"
    /\ pc' = "idle"
    /\ request' = NoRequest
    /\ printer_ip' = << >>
    /\ connection' = "none"
    /\ target' = None
    /\ config' = NoConfiguration
    /\ status' = NoStatus
    /\ tape_info' = DefaultTapeInfo
    /\ parsed' = NoParse
    /\ job' = NoJob
    /\ temp_file' = "none"
    /\ printed' = None
    /\ sent' = << >>
    /\ exc' = NoExc
    /\ escaped' = FALSE
    /\ log' = << >>

\* A write to the client: send_response .. end_headers, or wfile.write of a body.
\* It either appends item to what the client was sent and goes on at next, or
\* raises, and the handler goes on at onError with the exception.
Write(item, next, onError) ==
    \/ /\ sent' = Append(sent, item)
       /\ pc' = next
       /\ UNCHANGED <<exc, escaped>>
    \/ /\ \E e \in IOErrors : exc' = e
       /\ pc' = onError
       /\ escaped' = IF onError = "returned" THEN TRUE ELSE escaped
       /\ UNCHANGED sent

\* as Write, where nothing in the handler catches the exception
WriteUncaught(item, next) == Write(item, next, "returned")

\* do_OPTIONS
do_OPTIONS ==
    /\ pc = "dispatch"
    /\ request.method = "OPTIONS"
    /\ WriteUncaught(HeadItem(200, TRUE), "returned")
    /\ UNCHANGED <<request, printer_ip, connection, target, config, status, tape_info,
                   parsed, job, temp_file, printed, log>>

\* do_GET: the choice of the branch
do_GET ==
    /\ pc = "dispatch"
    /\ request.method = "GET"
    /\ pc' = IF UrlPath(request.path) = S_status THEN "status_head"
             ELSE IF UrlPath(request.path) = S_printer_status THEN "s_connect"
             ELSE "notfound_head"
    /\ UNCHANGED <<request, printer_ip, connection, target, config, status, tape_info,
                   parsed, job, temp_file, printed, sent, exc, escaped, log>>

\* do_POST: the choice of the branch
do_POST ==
    /\ pc = "dispatch"
    /\ request.method = "POST"
    /\ pc' = IF request.path = S_print THEN "p_decode" ELSE "notfound_head"
    /\ UNCHANGED <<request, printer_ip, connection, target, config, status, tape_info,
                   parsed, job, temp_file, printed, sent, exc, escaped, log>>

\* A method the class defines no do_<METHOD> for: BaseHTTPRequestHandler answers
\* 501 itself, with none of the handler's headers.
UnsupportedMethod ==
    /\ pc = "dispatch"
    /\ request.method \notin {"OPTIONS", "GET", "POST"}
    /\ WriteUncaught(HeadItem(501, FALSE), "returned")
    /\ UNCHANGED <<request, printer_ip, connection, target, config, status, tape_info,
                   parsed, job, temp_file, printed, log>>

\* GET /status: send_response(200) .. end_headers()
StatusRouteHead ==
    /\ pc = "status_head"
    /\ WriteUncaught(HeadItem(200, TRUE), "status_body")
    /\ UNCHANGED <<request, printer_ip, connection, target, config, status, tape_info,
                   parsed, job, temp_file, printed, log>>

\* GET /status: self.wfile.write(json.dumps(response).encode())
StatusRouteBody ==
    /\ pc = "status_body"
    /\ WriteUncaught(BodyItem([status |-> "running"]), "returned")
    /\ UNCHANGED <<request, printer_ip, connection, target, config, status, tape_info,
                   parsed, job, temp_file, printed, log>>

\* the else branches of do_GET and do_POST: send_response(404) .. end_headers()
NotFoundHead ==
    /\ pc = "notfound_head"
    /\ WriteUncaught(HeadItem(404, TRUE), "notfound_body")
    /\ UNCHANGED <<request, printer_ip, connection, target, config, status, tape_info,
                   parsed, job, temp_file, printed, log>>

\* self.wfile.write(b'Not Found')
NotFoundBody ==
    /\ pc = "notfound_body"
    /\ WriteUncaught(BodyItem([raw |-> "Not Found"]), "returned")
    /\ UNCHANGED <<request, printer_ip, connection, target, config, status, tape_info,
                   parsed, job, temp_file, printed, log>>

(***************************************************************************)
(* handle_printer_status_request                                           *)
(***************************************************************************)
\* a statement of a try block raises: the except clause at handler takes over
Raise(e, handler) ==
    /\ exc' = e
    /\ pc' = handler

\* Fails with a retry in place of the jump to the except clause: the handler
\* starts the request over
Fails_Retry(name, errors, handler) ==
    \E e \in errors :
        /\ exc' = e
        /\ pc' = "dispatch"
        /\ log' = << >>

\* the call name raises one of errors
Fails(name, errors, handler) ==
    \E e \in errors :
        /\ Raise(e, handler)
        /\ log' = Append(log, Failed(name, e))

\* printer_ip = ...; connection = Connection(printer_ip, 9100)
StatusConnect ==
    /\ pc = "s_connect"
    /\ printer_ip' = QueryPrinterIp(request.path)
    /\ target' = Some(<<printer_ip', Port>>)
    /\ \/ /\ connection' = "open"
          /\ log' = Append(log, Done("connect"))
          /\ pc' = "s_get_configuration"
          /\ UNCHANGED exc
       \/ /\ Fails("connect", DeviceErrors, "s_except")
          /\ UNCHANGED connection
    /\ UNCHANGED <<request, config, status, tape_info, parsed, job, temp_file, printed,
                   sent, escaped>>

\* config = printer.get_configuration()
StatusGetConfiguration ==
    /\ pc = "s_get_configuration"
    /\ \/ /\ \E c \in Configurations : config' = c
          /\ log' = Append(log, Done("get_configuration"))
          /\ pc' = "s_get_status"
          /\ UNCHANGED exc
       \/ /\ Fails("get_configuration", DeviceErrors, "s_except")
          /\ UNCHANGED config
    /\ UNCHANGED <<request, printer_ip, connection, target, status, tape_info, parsed,
                   job, temp_file, printed, sent, escaped>>

\* status = printer.get_status()
StatusGetStatus ==
    /\ pc = "s_get_status"
    /\ \/ /\ \E st \in Statuses : status' = st
          /\ log' = Append(log, Done("get_status"))
          /\ pc' = "s_close"
          /\ UNCHANGED exc
       \/ /\ Fails("get_status", DeviceErrors, "s_except")
          /\ UNCHANGED status
    /\ UNCHANGED <<request, printer_ip, connection, target, config, tape_info, parsed,
                   job, temp_file, printed, sent, escaped>>

\* connection.close(), on a connection that is open; an exception goes to handler
CloseConnection(next, handler) ==
    \/ /\ connection' = "closed"
       /\ log' = Append(log, Done("close"))
       /\ pc' = next
       /\ UNCHANGED exc
    \/ /\ connection' = "close_failed"
       /\ Fails("close", DeviceErrors, handler)

\* connection.close()
StatusClose ==
    /\ pc = "s_close"
    /\ CloseConnection("s_project", "s_except")
    /\ UNCHANGED <<request, printer_ip, target, config, status, tape_info, parsed, job,
                   temp_file, printed, sent, escaped>>

\* tape_info = {...}; if ...: tape_info[...] = ...
StatusProject ==
    /\ pc = "s_project"
    /\ tape_info' = ProjectTape(config, status)
    /\ pc' = "s_head200"
    /\ UNCHANGED <<request, printer_ip, connection, target, config, status, parsed, job,
                   temp_file, printed, sent, exc, escaped, log>>

\* send_response(200) .. end_headers()
StatusHead200 ==
    /\ pc = "s_head200"
    /\ Write(HeadItem(200, TRUE), "s_body200", "s_except")
    /\ UNCHANGED <<request, printer_ip, connection, target, config, status, tape_info,
                   parsed, job, temp_file, printed, log>>

StatusSuccessBody ==
    [success |-> TRUE,
     printer |-> [model |-> config.model, serial |-> config.serial,
                  state |-> status.print_state, job_stage |-> status.print_job_stage,
                  job_error |-> status.print_job_error],
     tape |-> tape_info]

\* response = {...}; self.wfile.write(json.dumps(response).encode())
StatusBody200 ==
    /\ pc = "s_body200"
    /\ Write(BodyItem(StatusSuccessBody), "returned", "s_except")
    /\ UNCHANGED <<request, printer_ip, connection, target, config, status, tape_info,
                   parsed, job, temp_file, printed, log>>

\* except Exception as e: logger.error(...); send_response(500) .. end_headers()
StatusHead500 ==
    /\ pc = "s_except"
    /\ \/ /\ sent' = Append(sent, HeadItem(500, TRUE))
          /\ pc' = "s_body500"
          /\ UNCHANGED <<exc, escaped>>
       \/ /\ \E e \in IOErrors : exc' = e
          /\ pc' = "returned"
          /\ escaped' = TRUE
          /\ UNCHANGED sent
    /\ UNCHANGED <<request, printer_ip, connection, target, config, status, tape_info,
                   parsed, job, temp_file, printed, log>>

\* StatusFailureBody with a fixed text in place of str(e)
StatusFailureBody_FixedText(e) ==
    [success |-> FALSE, error |-> "Internal Server Error", tape |-> DefaultTapeInfo]

StatusFailureBody(e) ==
    [success |-> FALSE, error |-> e, tape |-> DefaultTapeInfo]

\* response = {'success': False, 'error': str(e), 'tape': {...}}; self.wfile.write(...)
StatusBody500 ==
    /\ pc = "s_body500"
    /\ \/ /\ sent' = Append(sent, BodyItem(StatusFailureBody(exc)))
          /\ pc' = "returned"
          /\ UNCHANGED <<exc, escaped>>
       \/ /\ \E e \in IOErrors : exc' = e
          /\ pc' = "returned"
          /\ escaped' = TRUE
          /\ UNCHANGED sent
    /\ UNCHANGED <<request, printer_ip, connection, target, config, status, tape_info,
                   parsed, job, temp_file, printed, log>>

(***************************************************************************)
(* handle_print_request                                                    *)
(***************************************************************************)
\* What the statements before the temporary file is made come to: the message of
\* the ValueError raised, or "" when none is.
DecodeError(req, p) ==
    IF ~req.content_length_ok THEN "invalid literal for int() with base 10"
    ELSE IF ~StartsWith(req.content_type, S_multipart) THEN "Expected multipart/form-data"
    ELSE IF p.error # "" THEN p.error
    ELSE IF S_image \notin DOMAIN p.files THEN "No image file provided"
    ELSE ""

\* content_type = ... up to logger.info("Print request received ...")
PrintDecode ==
    /\ pc = "p_decode"
    /\ LET p == IF request.content_length_ok /\ StartsWith(request.content_type, S_multipart)
                THEN parse_multipart_form_data(request.content_type, request.body)
                ELSE NoParse
           err == DecodeError(request, p)
       IN  /\ parsed' = p
           /\ IF err # ""
              THEN /\ Raise(err, "p_except")
                   /\ log' = Append(log, Failed("decode", err))
                   /\ UNCHANGED <<printer_ip, job>>
              ELSE /\ printer_ip' = DictGet(p.form_data, S_printer_ip, S_default_ip)
                   /\ job' = [mode |-> DictGet(p.form_data, S_mode, S_vivid),
                              cut |-> DictGet(p.form_data, S_cut, S_full),
                              image_data |-> p.files[S_image].content,
                              image_filename |-> p.files[S_image].filename]
                   /\ pc' = "p_tempfile"
                   /\ UNCHANGED <<exc, log>>
    /\ UNCHANGED <<request, connection, target, config, status, tape_info, temp_file,
                   printed, sent, escaped>>

\* PrintTempFile with a failed write of the image swallowed: the job goes on
PrintTempFile_WriteUnchecked ==
    /\ pc = "p_tempfile"
    /\ \/ /\ temp_file' = "exists"
          /\ \/ log' = log \o <<Done("tmp_create"), Done("tmp_write")>>
             \/ \E e \in FileErrors :
                    log' = log \o <<Done("tmp_create"), Failed("tmp_write", e)>>
          /\ pc' = "p_connect"
          /\ UNCHANGED exc
       \/ /\ Fails("tmp_create", FileErrors, "p_except")
          /\ UNCHANGED temp_file
    /\ UNCHANGED <<request, printer_ip, connection, target, config, status, tape_info,
                   parsed, job, printed, sent, escaped>>

\* with tempfile.NamedTemporaryFile(suffix='.jpg', delete=False) as temp_file:
\*     temp_file.write(image_data); temp_filename = temp_file.name
\* Both statements are outside the inner try, so its finally does not cover them.
PrintTempFile ==
    /\ pc = "p_tempfile"
    /\ \/ /\ temp_file' = "exists"
          /\ log' = log \o <<Done("tmp_create"), Done("tmp_write")>>
          /\ pc' = "p_connect"
          /\ UNCHANGED exc
       \/ /\ temp_file' = "exists"
          /\ \E e \in FileErrors :
                /\ Raise(e, "p_except")
                /\ log' = log \o <<Done("tmp_create"), Failed("tmp_write", e)>>
       \/ /\ Fails("tmp_create", FileErrors, "p_except")
          /\ UNCHANGED temp_file
    /\ UNCHANGED <<request, printer_ip, connection, target, config, status, tape_info,
                   parsed, job, printed, sent, escaped>>

\* connection = Connection(printer_ip, 9100); printer = LabelPrinter(connection)
PrintConnect ==
    /\ pc = "p_connect"
    /\ target' = Some(<<printer_ip, Port>>)
    /\ \/ /\ connection' = "open"
          /\ log' = Append(log, Done("connect"))
          /\ pc' = "p_get_status"
          /\ UNCHANGED exc
       \/ /\ Fails("connect", DeviceErrors, "p_finally")
          /\ UNCHANGED connection
    /\ UNCHANGED <<request, printer_ip, config, status, tape_info, parsed, job, temp_file,
                   printed, sent, escaped>>

\* PrintGetStatus with the failure of get_status swallowed: the job goes on
PrintGetStatus_Unchecked ==
    /\ pc = "p_get_status"
    /\ \/ /\ \E st \in Statuses : status' = st
          /\ log' = Append(log, Done("get_status"))
          /\ UNCHANGED exc
       \/ /\ \E e \in DeviceErrors : log' = Append(log, Failed("get_status", e))
          /\ UNCHANGED <<status, exc>>
    /\ pc' = "p_print"
    /\ UNCHANGED <<request, printer_ip, connection, target, config, tape_info, parsed,
                   job, temp_file, printed, sent, escaped>>

\* status = printer.get_status()
PrintGetStatus ==
    /\ pc = "p_get_status"
    /\ \/ /\ \E st \in Statuses : status' = st
          /\ log' = Append(log, Done("get_status"))
          /\ pc' = "p_print"
          /\ UNCHANGED exc
       \/ /\ Fails("get_status", DeviceErrors, "p_finally")
          /\ UNCHANGED status
    /\ UNCHANGED <<request, printer_ip, connection, target, config, tape_info, parsed,
                   job, temp_file, printed, sent, escaped>>

\* PrintJpeg with the failure of print_jpeg swallowed: the handler goes on
PrintJpeg_Unchecked ==
    /\ pc = "p_print"
    /\ printed' = Some([image |-> job.image_data, mode |-> job.mode, cut |-> job.cut])
    /\ \/ log' = Append(log, Done("print_jpeg"))
       \/ \E e \in DeviceErrors : log' = Append(log, Failed("print_jpeg", e))
    /\ pc' = "p_close"
    /\ UNCHANGED <<request, printer_ip, connection, target, config, status, tape_info,
                   parsed, job, temp_file, sent, exc, escaped>>

\* with open(temp_filename, 'rb') as image_file:
\*     print_result = printer.print_jpeg(image_file, mode, cut)
PrintJpeg ==
    /\ pc = "p_print"
    /\ printed' = Some([image |-> job.image_data, mode |-> job.mode, cut |-> job.cut])
    /\ \/ /\ log' = Append(log, Done("print_jpeg"))
          /\ pc' = "p_close"
          /\ UNCHANGED exc
       \/ /\ Fails("print_jpeg", DeviceErrors, "p_finally")
    /\ UNCHANGED <<request, printer_ip, connection, target, config, status, tape_info,
                   parsed, job, temp_file, sent, escaped>>

\* connection.close()
PrintClose ==
    /\ pc = "p_close"
    /\ CloseConnection("p_head200", "p_finally")
    /\ UNCHANGED <<request, printer_ip, target, config, status, tape_info, parsed, job,
                   temp_file, printed, sent, escaped>>

\* send_response(200) .. end_headers()
PrintHead200 ==
    /\ pc = "p_head200"
    /\ Write(HeadItem(200, TRUE), "p_body200", "p_finally")
    /\ UNCHANGED <<request, printer_ip, connection, target, config, status, tape_info,
                   parsed, job, temp_file, printed, log>>

PrintSuccessBody ==
    [success |-> TRUE, message |-> "Print job sent successfully",
     printer_status |-> status.print_state]

\* response = {...}; self.wfile.write(json.dumps(response).encode())
PrintBody200 ==
    /\ pc = "p_body200"
    /\ \/ /\ sent' = Append(sent, BodyItem(PrintSuccessBody))
          /\ pc' = "p_finally_ok"
          /\ UNCHANGED exc
       \/ /\ \E e \in IOErrors : Raise(e, "p_finally")
          /\ UNCHANGED sent
    /\ UNCHANGED <<request, printer_ip, connection, target, config, status, tape_info,
                   parsed, job, temp_file, printed, escaped, log>>

\* finally: try: os.unlink(temp_filename) except: pass
\* Reached at "p_finally" with an exception on its way to the outer except, and
\* at "p_finally_ok" when the try block ran to its end.
PrintFinally ==
    /\ pc \in {"p_finally", "p_finally_ok"}
    /\ \/ /\ temp_file' = "removed"
          /\ log' = Append(log, Done("unlink"))
       \/ /\ \E e \in FileErrors : log' = Append(log, Failed("unlink", e))
          /\ UNCHANGED temp_file
    /\ pc' = IF pc = "p_finally" THEN "p_except" ELSE "returned"
    /\ UNCHANGED <<request, printer_ip, connection, target, config, status, tape_info,
                   parsed, job, printed, sent, exc, escaped>>

\* except Exception as e: logger.error(...); send_response(500) .. end_headers()
PrintHead500 ==
    /\ pc = "p_except"
    /\ \/ /\ sent' = Append(sent, HeadItem(500, TRUE))
          /\ pc' = "p_body500"
          /\ UNCHANGED <<exc, escaped>>
       \/ /\ \E e \in IOErrors : exc' = e
          /\ pc' = "returned"
          /\ escaped' = TRUE
          /\ UNCHANGED sent
    /\ UNCHANGED <<request, printer_ip, connection, target, config, status, tape_info,
                   parsed, job, temp_file, printed, log>>

PrintFailureBody(e) == [success |-> FALSE, error |-> e]

\* response = {'success': False, 'error': str(e)}; self.wfile.write(...)
PrintBody500 ==
    /\ pc = "p_body500"
    /\ \/ /\ sent' = Append(sent, BodyItem(PrintFailureBody(exc)))
          /\ pc' = "returned"
          /\ UNCHANGED <<exc, escaped>>
       \/ /\ \E e \in IOErrors : exc' = e
          /\ pc' = "returned"
          /\ escaped' = TRUE
          /\ UNCHANGED sent
    /\ UNCHANGED <<request, printer_ip, connection, target, config, status, tape_info,
                   parsed, job, temp_file, printed, log>>

(***************************************************************************)
(* The calls that block.  No timeout is set on the printer's socket nor on *)
(* the client's, so a device call the printer never answers, and a read of *)
(* a request body the client never completes, never return.                *)
(***************************************************************************)
\* the statements that call into the device library
DeviceCallPcs ==
    {"s_connect", "s_get_configuration", "s_get_status", "s_close",
     "p_connect", "p_get_status", "p_print", "p_close"}

\* the device call the handler is about to make never returns
DeviceHangs ==
    /\ pc \in DeviceCallPcs
    /\ pc' = "hung"
    /\ UNCHANGED <<request, printer_ip, connection, target, config, status, tape_info,
                   parsed, job, temp_file, printed, sent, exc, escaped, log>>

\* body = self.rfile.read(content_length) never returns: the client sent fewer
\* bytes than its Content-Length announces and keeps the connection open
ClientStalls ==
    /\ pc = "p_decode"
    /\ request.content_length_ok
    /\ StartsWith(request.content_type, S_multipart)
    /\ pc' = "stalled"
    /\ UNCHANGED <<request, printer_ip, connection, target, config, status, tape_info,
                   parsed, job, temp_file, printed, sent, exc, escaped, log>>

(***************************************************************************)
(* The server.                                                             *)
(***************************************************************************)
\* the statements of the request handlers, with the dispatch and the return
HandlerPcs ==
    {"dispatch", "status_head", "status_body", "notfound_head", "notfound_body",
     "s_connect", "s_get_configuration", "s_get_status", "s_close", "s_project",
     "s_head200", "s_body200", "s_except", "s_body500",
     "p_decode", "p_tempfile", "p_connect", "p_get_status", "p_print", "p_close",
     "p_head200", "p_body200", "p_finally", "p_finally_ok", "p_except", "p_body500",
     "returned"}

\* the handler that is running gets from its statement to the next one, or back
\* to serve_forever, without blocking in a device call
Running ==
    /\ pc \in HandlerPcs
    /\ pc' \in (HandlerPcs \cup {"idle"}) \ {pc}

Next ==
    \/ DeviceHangs
    \/ ClientStalls
    \/ Receive
    \/ Return
    \/ do_OPTIONS
    \/ do_GET
    \/ do_POST
    \/ UnsupportedMethod
    \/ StatusRouteHead
    \/ StatusRouteBody
    \/ NotFoundHead
    \/ NotFoundBody
    \/ StatusConnect
    \/ StatusGetConfiguration
    \/ StatusGetStatus
    \/ StatusClose
    \/ StatusProject
    \/ StatusHead200
    \/ StatusBody200
    \/ StatusHead500
    \/ StatusBody500
    \/ PrintDecode
    \/ PrintTempFile
    \/ PrintConnect
    \/ PrintGetStatus
    \/ PrintJpeg
    \/ PrintClose
    \/ PrintHead200
    \/ PrintBody200
    \/ PrintFinally
    \/ PrintHead500
    \/ PrintBody500

Spec == Init /\ [][Next]_vars

\* The handler runs in the server's only thread and nothing competes with it:
\* while it is at a statement it goes on to the next one, unless it is in a
\* call that never returns.  Every statement of the handlers changes pc.
LiveSpec == Init /\ [][Next]_vars /\ WF_pc(Running)

(***************************************************************************)
(* Vocabulary of the properties.                                           *)
(***************************************************************************)
Called(name) == \E i \in DOMAIN log : log[i].call = name
Succeeded(name) == \E i \in DOMAIN log : log[i].call = name /\ log[i].ok
FailedCall(name) == \E i \in DOMAIN log : log[i].call = name /\ ~log[i].ok

IsStatusRoute == request.method = "GET" /\ UrlPath(request.path) = S_printer_status
IsPrintRoute == request.method = "POST" /\ request.path = S_print

\* no write to the client has raised
ClientReachable == exc \notin IOErrors

Range(f) == {f[i] : i \in DOMAIN f}

\* C1: On GET /printer-status and POST /print, a connection that was opened
\* has had close() called on it by the time the handler returns, on the
\* success path and on every failure path.
C1_ConnectionClosedOnEveryPath ==
    (pc = "returned" /\ Succeeded("connect")) => Called("close")

\* C2: On POST /print, once the temporary file has been created it no longer
\* exists when the handler returns, whichever statement failed, unless the
\* removal itself failed; and a failed removal is never what the caller is
\* told.
C2_TempFileRemovedOnEveryPath ==
    /\ (pc = "returned" /\ Succeeded("tmp_create") /\ ~FailedCall("unlink"))
           => temp_file = "removed"
    /\ (pc = "returned" /\ FailedCall("unlink") /\ Succeeded("tmp_write"))
           => exc \notin FileErrors

\* the printer did everything the request asked of it
DeviceWorkSucceeded ==
    \/ IsStatusRoute /\ Succeeded("get_configuration") /\ Succeeded("get_status")
    \/ IsPrintRoute /\ Succeeded("print_jpeg")

SuccessResponse ==
    /\ Len(sent) = 2
    /\ sent[1] = [kind |-> "head", status |-> 200, cors |-> TRUE]
    /\ sent[2].kind = "body"
    /\ sent[2].body.success = TRUE

\* C3: When every device query and print call of a request succeeded and only
\* connection.close() or the removal of the temporary file fails, the caller
\* still receives the 200 success body of the route, not a 500 error body.
C3_CleanupFailureKeepsSuccess ==
    (pc = "returned" /\ DeviceWorkSucceeded /\ ClientReachable) => SuccessResponse

HandlingCalls == {"decode", "connect", "get_configuration", "get_status", "print_jpeg"}

HandlingFailed ==
    \E i \in DOMAIN log : log[i].call \in HandlingCalls /\ ~log[i].ok

\* the message of the exception raised while decoding, connecting, querying or printing
HandlingError ==
    log[CHOOSE i \in DOMAIN log : log[i].call \in HandlingCalls /\ ~log[i].ok].err

ZeroTape ==
    [present |-> FALSE, type_mm |-> 0, total_mm |-> 0, remaining_mm |-> 0,
     percentage |-> 0]

ErrorResponse(e) ==
    <<[kind |-> "head", status |-> 500, cors |-> TRUE],
      [kind |-> "body",
       body |-> IF IsStatusRoute
                THEN [success |-> FALSE, error |-> e, tape |-> ZeroTape]
                ELSE [success |-> FALSE, error |-> e]]>>

\* C4 as stated: on GET /printer-status and POST /print an exception raised
\* while decoding the input, opening the connection, querying or printing
\* always ends in a 500 response whose JSON body has success=false and the
\* exception's message (and the all-zero tape on /printer-status), and no
\* exception leaves the handler.
C4_EveryFailureAnswered500 ==
    (pc = "returned" /\ (IsStatusRoute \/ IsPrintRoute) /\ HandlingFailed)
        => /\ ~escaped
           /\ sent = ErrorResponse(HandlingError)

\* C4 as amended: such an exception is caught by the route handler, which
\* answers 500 with the JSON failure body carrying the exception's message;
\* an exception leaves the handler only when sending that 500 response
\* itself raises, and then the client has at most the 500 status line.
C4_FailureAnswered500UnlessSendFails ==
    (pc = "returned" /\ (IsStatusRoute \/ IsPrintRoute) /\ HandlingFailed)
        => IF ClientReachable
           THEN /\ ~escaped
                /\ sent = ErrorResponse(HandlingError)
           ELSE /\ escaped
                /\ sent \in {<< >>, <<[kind |-> "head", status |-> 500, cors |-> TRUE]>>}

\* a /printer-status request whose get_status raised has been answered 500
C4_Witness ==
    /\ pc = "returned"
    /\ IsStatusRoute
    /\ FailedCall("get_status")
    /\ ~escaped
    /\ Len(sent) = 2
    /\ sent[2].body.error = "timed out"

\* the routes the dispatcher serves
MatchedRoute ==
    \/ request.method = "OPTIONS"
    \/ request.method = "GET" /\ UrlPath(request.path) \in {S_status, S_printer_status}
    \/ request.method = "POST" /\ request.path = S_print

\* C5: Every response carries Access-Control-Allow-Origin: *, and a request
\* that is neither an OPTIONS preflight nor GET /status, GET /printer-status
\* or POST /print (other methods and POST /print?query included) is answered
\* 404.
C5_CorsEverywhereAnd404 ==
    /\ \A i \in DOMAIN sent : sent[i].kind = "head" => sent[i].cors
    /\ (pc = "returned" /\ ~escaped /\ ~MatchedRoute)
           => (sent # << >> /\ sent[1].status = 404)

\* parse_multipart_form_data has run on the body of a POST /print and returned
DecodeDone ==
    /\ IsPrintRoute
    /\ pc \notin {"idle", "dispatch", "p_decode"}
    /\ request.content_length_ok
    /\ StartsWith(request.content_type, S_multipart)
    /\ parsed.error = ""

\* the part of the form that decides what is decoded under its name
LastWithName(form, i) == \A j \in (i + 1)..Len(form) : form[j].name # form[i].name

DecodedContent(name) ==
    IF name \in DOMAIN parsed.files THEN Some(parsed.files[name].content)
    ELSE IF name \in DOMAIN parsed.form_data THEN Some(parsed.form_data[name])
    ELSE None

\* C6: Decoding the encoded form gives back every part's content unchanged:
\* exactly the one CRLF of the framing is removed, also from content that
\* itself ends in CR or LF bytes.  (Stated for content that is valid UTF-8.)
C6_ContentRoundTrip ==
    DecodeDone =>
        \A i \in DOMAIN request.form :
            LET part == request.form[i]
            IN  (/\ LastWithName(request.form, i)
                 /\ part.name # << >>
                 /\ XFF \notin Range(part.content))
                    => DecodedContent(part.name) = Some(part.content)

\* C7: A part with a name and a filename attribute is recorded as a file part
\* and never as a form field, also when the filename is the empty string; a
\* part with a name and no filename attribute is recorded as a form field.
C7_FilenameMakesFilePart ==
    DecodeDone =>
        \A i \in DOMAIN request.form :
            LET part == request.form[i]
            IN  (LastWithName(request.form, i) /\ part.name # << >>)
                    => IF part.filename # None
                       THEN /\ part.name \in DOMAIN parsed.files
                            /\ part.name \notin DOMAIN parsed.form_data
                       ELSE /\ part.name \in DOMAIN parsed.form_data
                            /\ part.name \notin DOMAIN parsed.files

\* a length that is known and greater than zero
Positive(o) == o # None /\ o[1] > 0

\* C8: tape.present is true exactly when the width is > 0, the initial length
\* is > 0 and the remaining length is not the sentinel -1.0; when present is
\* false the four numbers are 0.
C8_PresentExactly ==
    pc = "s_head200" =>
        /\ tape_info.present <=> (/\ Positive(config.tape_width)
                                  /\ Positive(config.tape_length_initial)
                                  /\ status.tape_length_remaining # Sentinel)
        /\ ~tape_info.present =>
               /\ tape_info.type_mm = 0
               /\ tape_info.total_mm = 0
               /\ tape_info.remaining_mm = 0
               /\ tape_info.percentage = 0

\* q / 32 inch times 25.4, truncated toward zero, in exact arithmetic
ExactMm(q) == Sign(q) * ((Abs(q) * 254) \div 320)

\* C9: The millimetre values are the inch values times 25.4 truncated toward
\* zero, and percentage is floor(remaining_mm * 100 / total_mm) when
\* total_mm > 0 and 0 when total_mm = 0.
C9_PercentageIsFloor ==
    pc = "s_head200" =>
        /\ tape_info.present =>
               /\ tape_info.type_mm = ExactMm(config.tape_width[1])
               /\ tape_info.total_mm = ExactMm(config.tape_length_initial[1])
               /\ tape_info.remaining_mm = ExactMm(status.tape_length_remaining)
        /\ tape_info.total_mm > 0 =>
               tape_info.percentage
                   = (tape_info.remaining_mm * 100) \div tape_info.total_mm
        /\ tape_info.total_mm = 0 => tape_info.percentage = 0

\* C10: tape.percentage is an integer from 0 to 100 in every /printer-status
\* body, success or failure.
C10_PercentageInRange ==
    \A i \in DOMAIN sent :
        (sent[i].kind = "body" /\ "tape" \in DOMAIN sent[i].body)
            => sent[i].body.tape.percentage \in 0..100

\* the parameters of a content-type header: what follows the media type, split
\* at the semicolons
HeaderParameters(content_type) ==
    LET fields == Split(content_type, <<";">>)
    IN  [i \in 1..(Len(fields) - 1) |-> Strip(fields[i + 1])]

\* the header has a parameter whose name is boundary
HasBoundaryParameter(content_type) ==
    \E i \in DOMAIN HeaderParameters(content_type) :
        StartsWith(Lower(HeaderParameters(content_type)[i]), S_boundary_eq)

\* the media type of the header is multipart/form-data
IsMultipartFormData(content_type) ==
    Lower(Strip(Split(content_type, <<";">>)[1])) = S_multipart

\* a POST /print with one of the three malformed inputs
MalformedInput ==
    /\ IsPrintRoute
    /\ request.content_length_ok
    /\ \/ ~IsMultipartFormData(request.content_type)
       \/ ~HasBoundaryParameter(request.content_type)
       \/ S_image \notin DOMAIN parsed.files

\* C11: On POST /print a content type that is not multipart/form-data, a
\* content type without a boundary= parameter and a decoded form without a
\* file part named image are each answered 500 with a JSON body carrying an
\* error message, and no exception leaves the handler; and
\* parse_multipart_form_data fails whenever the header has no boundary=
\* parameter.
C11_MalformedInputAnswered500 ==
    /\ (pc = "returned" /\ MalformedInput)
           => /\ ~escaped
              /\ Len(sent) = 2
              /\ sent[1] = [kind |-> "head", status |-> 500, cors |-> TRUE]
              /\ sent[2].kind = "body"
              /\ sent[2].body.success = FALSE
              /\ sent[2].body.error # ""
    /\ (/\ IsPrintRoute
        /\ pc \notin {"idle", "dispatch", "p_decode"}
        /\ request.content_length_ok
        /\ StartsWith(request.content_type, S_multipart)
        /\ ~HasBoundaryParameter(request.content_type))
           => parsed.error # ""

\* the values the query string of path gives the parameter ip, in order
IpValues(path) ==
    LET pairs == Split(UrlQuery(path), S_amp)
        given == SelectSeq(pairs, LAMBDA p : StartsWith(p, <<"i", "p", "=">>))
    IN  [i \in DOMAIN given |-> SubSeq(given[i], 4, Len(given[i]))]

\* the host the request asks for: the first non-empty value of ip, if any
RequestedHost(path) ==
    LET values == SelectSeq(IpValues(path), LAMBDA v : v # << >>)
    IN  IF values = << >>
        THEN <<"1", "9", "2", ".", "1", "6", "8", ".", "1", "7", "8", ".", "1", "2", "0">>
        ELSE values[1]

\* C12: GET /printer-status opens its connection to port 9100 of the host the
\* ip query parameter names, and of 192.168.178.120 when the parameter is
\* absent or its value is empty.
C12_ConnectsToRequestedHost ==
    (IsStatusRoute /\ Called("connect"))
        => target = <<(<<RequestedHost(request.path), 9100>>)>>

\* a request with an empty ip value has had its connection opened to the default
C12_Witness ==
    /\ request.method = "GET"
    /\ request.path = S_printer_status \o <<"?", "i", "p", "=">>
    /\ connection = "open"
    /\ target = <<(<<S_default_ip, 9100>>)>>

\* the calls made to the printer
DeviceCalls == {"connect", "get_configuration", "get_status", "print_jpeg"}

CallCount(name) == Cardinality({i \in DOMAIN log : log[i].call = name})

DeviceFailed == \E i \in DOMAIN log : log[i].call \in DeviceCalls /\ ~log[i].ok

\* the message of the first device call that raised
DeviceError ==
    LET failures == {i \in DOMAIN log : log[i].call \in DeviceCalls /\ ~log[i].ok}
    IN  log[CHOOSE i \in failures : \A j \in failures : i <= j].err

\* C13: No retries.  Within one request at most one connection is opened and
\* get_configuration, get_status and print_jpeg are each called at most once;
\* after the first device call that fails none of these calls is made
\* again, and the response written to the caller is the 500 failure body
\* with that failure's message; on POST /print print_jpeg is called only
\* after get_status has returned successfully.
C13_NoRetries ==
    /\ \A name \in DeviceCalls : CallCount(name) <= 1
    /\ \A i, j \in DOMAIN log :
           (i < j /\ log[i].call \in DeviceCalls /\ ~log[i].ok)
               => log[j].call \notin DeviceCalls
    /\ (pc = "returned" /\ DeviceFailed)
           => /\ sent \in {SubSeq(ErrorResponse(DeviceError), 1, n) : n \in 0..2}
              /\ ClientReachable => sent = ErrorResponse(DeviceError)
    /\ \A j \in DOMAIN log :
           (IsPrintRoute /\ log[j].call = "print_jpeg")
               => \E i \in 1..(j - 1) : log[i] = [call |-> "get_status", ok |-> TRUE, err |-> ""]

\* a POST /print whose get_status raised: print_jpeg was not called and the
\* caller has the 500 body with the message
C13_Witness ==
    /\ pc = "returned"
    /\ IsPrintRoute
    /\ CallCount("connect") = 1
    /\ FailedCall("get_status")
    /\ ~Called("print_jpeg")
    /\ sent = ErrorResponse("connection reset")

\* every call of second was made after a call of first that succeeded
Before(first, second) ==
    \A j \in DOMAIN log :
        log[j].call = second
            => \E i \in 1..(j - 1) : log[i] = [call |-> first, ok |-> TRUE, err |-> ""]

\* C14 as stated: on POST /print the session is opened and the status is
\* queried before the image is written to the temporary file, so a request
\* whose connection or status query fails never creates a temporary file.
C14_SessionBeforeTempFile ==
    IsPrintRoute =>
        /\ Before("connect", "tmp_create")
        /\ Before("get_status", "tmp_create")
        /\ (FailedCall("connect") \/ FailedCall("get_status")) => ~Called("tmp_create")

\* C14 as amended: on POST /print the temporary file is created and the
\* image written to it first; only then is the session opened, the status
\* queried, the image printed and the session closed, each step only after
\* the one before it succeeded.  A request whose connection or status query
\* fails has therefore created the temporary file, and the removal of the
\* file has been attempted by the time the handler returns; a request whose
\* temporary file could not be written never opens a session.
C14_TempFileBeforeSession ==
    IsPrintRoute =>
        /\ Before("tmp_create", "tmp_write")
        /\ Before("tmp_write", "connect")
        /\ Before("connect", "get_status")
        /\ Before("get_status", "print_jpeg")
        /\ Before("print_jpeg", "close")
        /\ (FailedCall("connect") \/ FailedCall("get_status"))
               => /\ Succeeded("tmp_write")
                  /\ pc = "returned" => Called("unlink")
        /\ (FailedCall("tmp_create") \/ FailedCall("tmp_write")) => ~Called("connect")

\* a POST /print whose connection failed, after the temporary file was
\* written; the file has been removed
C14_Witness ==
    /\ pc = "returned"
    /\ IsPrintRoute
    /\ log[1] = [call |-> "tmp_create", ok |-> TRUE, err |-> ""]
    /\ FailedCall("connect")
    /\ temp_file = "removed"

\* the status lines the client was sent for the request
StatusLines == SelectSeq(sent, LAMBDA item : item.kind = "head")

\* C15: A request to /printer-status or /print is sent exactly one status
\* line: never a second one, also when the body of a 200 response that was
\* started fails to be written, and one by the time the handler returns
\* (as long as no write to the client has raised).
C15_OneStatusLine ==
    (IsStatusRoute \/ IsPrintRoute) =>
        /\ Len(StatusLines) <= 1
        /\ (pc = "returned" /\ ClientReachable) => Len(StatusLines) = 1

\* the bodies with success=true the client was sent for the request
SuccessBodies ==
    SelectSeq(sent, LAMBDA item : item.kind = "body" /\ item.body.success)

\* C16: On POST /print a success=true body is sent only in a 200 response,
\* after print_jpeg returned without error and the connection was closed;
\* no request whose connect, get_status or print_jpeg failed is sent one; and
\* the printer_status in it is the state the request's get_status returned.
C16_SuccessOnlyAfterPrint ==
    (IsPrintRoute /\ SuccessBodies # << >>) =>
        /\ sent = <<[kind |-> "head", status |-> 200, cors |-> TRUE], SuccessBodies[1]>>
        /\ Before("get_status", "print_jpeg")
        /\ Before("print_jpeg", "close")
        /\ Succeeded("print_jpeg")
        /\ Succeeded("close")
        /\ connection = "closed"
        /\ ~DeviceFailed
        /\ status \in Statuses
        /\ SuccessBodies[1].body.printer_status = status.print_state

\* a POST /print that was answered success=true while the printer was busy
C16_Witness ==
    /\ IsPrintRoute
    /\ pc = "returned"
    /\ Succeeded("print_jpeg")
    /\ SuccessBodies # << >>
    /\ SuccessBodies[1].body.printer_status = "BUSY"

\* the handler has returned, with a response written unless a write raised
Answered ==
    /\ pc = "returned"
    /\ ClientReachable => sent # << >>

\* C17 as stated: provided every device call returns or raises, every
\* request is eventually answered and its handler returns, the handler
\* having no wait of its own; and a device call that never returns blocks
\* the request, and with it the server, forever.
C17_ReturnsUnlessDeviceHangs ==
    /\ [](pc # "hung") => ((pc = "dispatch") ~> Answered)
    /\ [][pc = "hung" => pc' = "hung"]_vars

\* C17 as amended: provided every blocking call of the handler returns or
\* raises, the device calls and the read of the request body from the
\* client alike, every request is eventually answered and its handler
\* returns; a call that never returns blocks the request, and with it the
\* server, forever.
C17_ReturnsUnlessBlocked ==
    /\ [](pc \notin {"hung", "stalled"}) => ((pc = "dispatch") ~> Answered)
    /\ [][(pc = "hung" \/ pc = "stalled") => (pc' = pc)]_vars

\* a POST /print has gone through every device call and returned, answered
C17_Witness ==
    /\ pc = "returned"
    /\ IsPrintRoute
    /\ \A name \in {"connect", "get_status", "print_jpeg", "close"} : Succeeded(name)
    /\ Len(sent) = 2

=============================================================================
